---- MODULE Spec2Model ----
(***************************************************************************)
(* A model of vc830.c: the Voltcraft VC-830 (FS9922-DMM4) serial decoder.  *)
(*                                                                         *)
(*   read14BytesPaket   the frame synchronizer (select + read, one byte    *)
(*                      at a time, reset on an idle timeout)               *)
(*   decodeFS9922Paket  the packet decoder                                 *)
(*   main               the sampling loop                                  *)
(*                                                                         *)
(* C strings are sequences of bytes (the terminating NUL is left out), so  *)
(* that strlen is Len and strcat is \o.  The labels "µ", "Ω", "°C" and     *)
(* "°F" are the UTF-8 byte sequences of the source file.                   *)
(***************************************************************************)
EXTENDS Integers, Sequences, FiniteSets, TLC

\* ------------------------------------------------------------------------
\* Bounds of the model
\* ------------------------------------------------------------------------

\* The longest input stream, counted in segments (a frame, the first six
\* bytes of a frame, an idle gap, a failing select, a failing read).
MaxSegs == 4

\* ------------------------------------------------------------------------
\* Program constants
\* ------------------------------------------------------------------------

END_OF_CAPTURE_FILE == 142857

\* long count = LONG_MAX: no limit.  The model holds the largest value of a
\* 32-bit long; loop stays far below it on every stream of the model.
LONG_MAX == 2147483647

\* sizeof(vWithUnit) and sizeof(vSiWithUnit)
WorkBufLen == 20

\* bufIdx == 14: the length of one frame
FrameLen == 14

\* ------------------------------------------------------------------------
\* Bytes and strings
\* ------------------------------------------------------------------------

Byte == 0..255

\* A C array is the sequence of its elements: a[n] is At(a, n)
At(a, n) == a[n + 1]

\* b & (1 << bit)
BitSet(b, bit) == (b \div (2 ^ bit)) % 2 = 1

\* isdigit() in the C locale
isdigit(c) == c >= 48 /\ c <= 57

Zeros(n) == [i \in 1..n |-> 48]

Take(s, n) == IF Len(s) <= n THEN s ELSE SubSeq(s, 1, n)

\* The value of a string of decimal digits
RECURSIVE DigitsValue(_)
DigitsValue(s) ==
    IF s = <<>> THEN 0
    ELSE 10 * DigitsValue(SubSeq(s, 1, Len(s) - 1)) + (s[Len(s)] - 48)

\* n (0 <= n) as exactly w decimal digits
RECURSIVE FixedDigits(_, _)
FixedDigits(n, w) ==
    IF w = 0 THEN <<>>
    ELSE FixedDigits(n \div 10, w - 1) \o <<48 + (n % 10)>>

\* The labels of the status bits
L_AUTO  == <<65, 85, 84, 79>>
L_DC    == <<68, 67>>
L_AC    == <<65, 67>>
L_REL   == <<82, 69, 76>>
L_HOLD  == <<72, 79, 76, 68>>
L_BPN   == <<66, 80, 78>>
L_Diode == <<68, 105, 111, 100, 101>>
L_Z2    == <<90, 50>>
L_MAX   == <<77, 65, 88>>
L_MIN   == <<77, 73, 78>>
L_APO   == <<65, 80, 79>>
L_Bat   == <<66, 97, 116>>
L_n     == <<110>>
L_Z3    == <<90, 51>>
L_micro == <<194, 181>>
L_m     == <<109>>
L_k     == <<107>>
L_M     == <<77>>
L_Beep  == <<66, 101, 101, 112>>
L_pct   == <<37>>
L_Z4    == <<90, 52>>
L_V     == <<86>>
L_A     == <<65>>
L_Ohm   == <<206, 169>>
L_hFE   == <<104, 70, 69>>
L_Hz    == <<72, 122>>
L_F     == <<70>>
L_degC  == <<194, 176, 67>>
L_degF  == <<194, 176, 70>>

\* "OVF"
S_OVF == <<79, 86, 70>>

\* ------------------------------------------------------------------------
\* decodeFS9922Paket and its helpers
\* ------------------------------------------------------------------------

\* memset(vc830Data, 0, sizeof(*vc830Data)): struct Vc830, all fields zero
ZeroData ==
    [receivedAt |-> 0, rawRisplay |-> <<>>, sign |-> 0, mode |-> <<>>,
     unit |-> <<>>, prefix |-> <<>>, fullUnit |-> <<>>, info |-> <<>>,
     barGraph |-> 0, barGraphIsShown |-> FALSE, batteryWarning |-> FALSE,
     autoRangeActive |-> FALSE, holdActive |-> FALSE, deltaActive |-> FALSE,
     overflow |-> FALSE, formatedValue |-> <<>>, formatedSiValue |-> <<>>]

\* strinsert(srcAndDest, pos, toInsert): the new contents of srcAndDest
strinsert(srcAndDest, pos, toInsert) ==
    SubSeq(srcAndDest, 1, pos) \o toInsert
        \o SubSeq(srcAndDest, pos + 1, Len(srcAndDest))

\* checkInfo's return value: buf[7 + statusByte - 1] & (1 << statusBit)
checkInfo(buf, statusByte, statusBit) ==
    BitSet(At(buf, 7 + statusByte - 1), statusBit)

\* checkInfo's effect on a non-NULL out: the new contents of out
checkInfoOut(buf, statusByte, statusBit, info, out) ==
    IF checkInfo(buf, statusByte, statusBit)
    THEN (IF out # <<>> THEN out \o <<32>> ELSE out) \o info
    ELSE out

\* The checkInfo calls that write to info, mode, prefix and unit, each in the
\* order of the code: <<statusByte, statusBit, label>>
infoCalls ==
    << <<1, 5, L_AUTO>>, <<2, 7, L_Diode>>, <<2, 6, L_Z2>>, <<2, 5, L_MAX>>,
       <<2, 4, L_MIN>>, <<2, 3, L_APO>>, <<2, 2, L_Bat>>, <<2, 0, L_Z3>>,
       <<3, 3, L_Beep>>, <<3, 2, L_Diode>>, <<3, 0, L_Z4>> >>

modeCalls ==
    << <<1, 4, L_DC>>, <<1, 3, L_AC>>, <<1, 2, L_REL>>, <<1, 1, L_HOLD>> >>

prefixCalls ==
    << <<2, 1, L_n>>, <<3, 7, L_micro>>, <<3, 6, L_m>>, <<3, 5, L_k>>,
       <<3, 4, L_M>>, <<3, 1, L_pct>> >>

unitCalls ==
    << <<4, 7, L_V>>, <<4, 6, L_A>>, <<4, 5, L_Ohm>>, <<4, 4, L_hFE>>,
       <<4, 3, L_Hz>>, <<4, 2, L_F>>, <<4, 1, L_degC>>, <<4, 0, L_degF>> >>

\* The contents of one out buffer after its checkInfo calls
RECURSIVE runCalls(_, _, _)
runCalls(buf, calls, out) ==
    IF calls = <<>> THEN out
    ELSE runCalls(buf, Tail(calls),
                  checkInfoOut(buf, calls[1][1], calls[1][2], calls[1][3], out))

\* The framing gate: buf[5] != 0x20 || buf[12] != 0x0d || buf[13] != 0x0a
badFraming(buf) == At(buf, 5) # 32 \/ At(buf, 12) # 13 \/ At(buf, 13) # 10

\* int sign: 1 for '+', -1 for '-', else 0
signOf(buf) ==
    LET s0 == 0
        s1 == IF At(buf, 0) = 43 THEN 1 ELSE s0
        s2 == IF At(buf, 0) = 45 THEN -1 ELSE s1
    IN  s2

\* The overflow sentinel '?','0',':','?'
isOverflow(buf) ==
    At(buf, 1) = 63 /\ At(buf, 2) = 48 /\ At(buf, 3) = 58 /\ At(buf, 4) = 63

\* The digit loop returns -3 at the first byte that is no digit
badDigit(buf) == \E i \in 0..3 : ~isdigit(At(buf, 1 + i))

\* int k: the decimal point position chosen from buf[6], -1 for none
pointPos(buf) ==
    LET k0 == -1
        k1 == IF At(buf, 6) = 49 THEN 1 ELSE k0
        k2 == IF At(buf, 6) = 50 THEN 2 ELSE k1
        k3 == IF At(buf, 6) = 51 THEN 3 ELSE k2
        k4 == IF At(buf, 6) = 52 THEN 3 ELSE k3
    IN  k4

\* char value[6]: "OVF", or the four digits with the point inserted
valueOf(buf) ==
    IF isOverflow(buf) THEN S_OVF
    ELSE LET digits == <<At(buf, 1), At(buf, 2), At(buf, 3), At(buf, 4)>>
             k == pointPos(buf)
         IN  IF k # -1 THEN strinsert(digits, k, <<46>>) ELSE digits

\* double multToSi, as the power of ten it holds
multToSi(prefix) ==
    LET m0 == 0
        m1 == IF prefix = L_n THEN -9 ELSE m0
        m2 == IF prefix = L_micro THEN -6 ELSE m1
        m3 == IF prefix = L_m THEN -3 ELSE m2
        m4 == IF prefix = L_k THEN 3 ELSE m3
        m5 == IF prefix = L_k THEN 6 ELSE m4
    IN  m5

\* The longest prefix of s, from index i, that is all digits
RECURSIVE DigitRun(_, _)
DigitRun(s, i) ==
    IF i <= Len(s) /\ isdigit(s[i]) THEN <<s[i]>> \o DigitRun(s, i + 1)
    ELSE <<>>

\* atof(s) as a decimal: the digits read (integer part, then fraction) and
\* the power of ten that scales them; 0 (no digits) when s starts with no
\* digit.  The binary rounding of a double is not modelled.
atof(s) ==
    LET ip == DigitRun(s, 1)
        dot == Len(ip) + 1
        fp == IF dot <= Len(s) /\ s[dot] = 46 THEN DigitRun(s, dot + 1)
              ELSE <<>>
    IN  [digs |-> ip \o fp, exp10 |-> 0 - Len(fp)]

\* double vSi = atof(value) * multToSi * sign
vSiOf(value, mult, sign) ==
    [neg |-> sign = -1, digs |-> atof(value).digs,
     exp10 |-> atof(value).exp10 + mult]

RECURSIVE StripZeros(_)
StripZeros(s) ==
    IF Len(s) > 1 /\ s[1] = 48 THEN StripZeros(Tail(s)) ELSE s

\* snprintf(vSiWithUnit, sizeof(vSiWithUnit), "%f", vSi): six digits after
\* the point, rounded half to even on the decimal value, cut to the buffer
snprintfF(v) ==
    LET n == Len(v.digs)
        p == n + v.exp10
        intD == IF p >= n THEN v.digs \o Zeros(p - n)
                ELSE IF p > 0 THEN SubSeq(v.digs, 1, p)
                ELSE <<>>
        fracAll == IF p >= n THEN <<>>
                   ELSE IF p >= 0 THEN SubSeq(v.digs, p + 1, n)
                   ELSE Zeros(0 - p) \o v.digs
        long == Len(fracAll) > 6
        first6 == IF long THEN SubSeq(fracAll, 1, 6)
                  ELSE fracAll \o Zeros(6 - Len(fracAll))
        rest == IF long THEN SubSeq(fracAll, 7, Len(fracAll)) ELSE <<>>
        half == IF long THEN 5 * (10 ^ (Len(rest) - 1)) ELSE 1
        f == DigitsValue(first6)
        up == long /\ (DigitsValue(rest) > half
                       \/ (DigitsValue(rest) = half /\ f % 2 = 1))
        f2 == IF up THEN f + 1 ELSE f
        carry == f2 = 1000000
        intS == IF carry THEN StripZeros(FixedDigits(DigitsValue(intD) + 1, 9))
                ELSE IF intD = <<>> THEN <<48>>
                ELSE StripZeros(intD)
        frac == IF carry THEN Zeros(6) ELSE FixedDigits(f2, 6)
    IN  Take((IF v.neg THEN <<45>> ELSE <<>>) \o intS \o <<46>> \o frac,
             WorkBufLen - 1)

\* trimZeros(s): the new contents of s
RECURSIVE trimZeros(_)
trimZeros(s) ==
    IF Len(s) = 0 THEN s
    ELSE IF s[Len(s)] # 48 THEN s
    ELSE IF Len(s) > 1 /\ s[Len(s) - 1] = 46 THEN s
    ELSE trimZeros(SubSeq(s, 1, Len(s) - 1))

\* *p for a pointer into a C string: the NUL after its last byte is 0
CharAt(s, i) == IF i <= Len(s) THEN s[i] ELSE 0

\* while (*vz == '0' && *(vz + 1) != '.') vz++;  the index vz ends at
RECURSIVE skipLeadingZeros(_, _)
skipLeadingZeros(value, i) ==
    IF CharAt(value, i) = 48 /\ CharAt(value, i + 1) # 46
    THEN skipLeadingZeros(value, i + 1)
    ELSE i

\* char vWithUnit[20] as the strcat calls build it
vWithUnitOf(value, sign, prefix, unit) ==
    (IF sign = -1 THEN <<45>> ELSE <<>>)
        \o SubSeq(value, skipLeadingZeros(value, 1), Len(value))
        \o <<32>> \o prefix \o unit

\* char vSiWithUnit[20] as snprintf, trimZeros and the strcat calls build it
vSiWithUnitOf(vSi, unit) == trimZeros(snprintfF(vSi)) \o <<32>> \o unit

\* decodeFS9922Paket(buf, vc830Data) called at time now: its return value,
\* what it leaves in *vc830Data, its locals, and whether a strcat wrote past
\* the end of vWithUnit or vSiWithUnit
decodeFS9922Paket(buf, now) ==
    LET cleared == [ZeroData EXCEPT !.receivedAt = now]
        failed(r) == [ret |-> r, data |-> cleared, multToSi |-> 0,
                      vSi |-> [neg |-> FALSE, digs |-> <<>>, exp10 |-> 0],
                      overrun |-> FALSE]
        sign == signOf(buf)
        value == valueOf(buf)
        mode == runCalls(buf, modeCalls, <<>>)
        prefix == runCalls(buf, prefixCalls, <<>>)
        unit == runCalls(buf, unitCalls, <<>>)
        info == runCalls(buf, infoCalls, <<>>)
        mult == multToSi(prefix)
        bar == At(buf, 11) % 128
        vSi == vSiOf(value, mult, sign)
        vWithUnit == vWithUnitOf(value, sign, prefix, unit)
        vSiWithUnit == vSiWithUnitOf(vSi, unit)
    IN  IF badFraming(buf) THEN failed(-1)
        ELSE IF sign = 0 THEN failed(-2)
        ELSE IF ~isOverflow(buf) /\ badDigit(buf) THEN failed(-3)
        ELSE [ret |-> 0,
              data |->
                [receivedAt |-> now,
                 rawRisplay |-> value,
                 sign |-> IF sign = 1 THEN 43 ELSE 45,
                 mode |-> mode,
                 unit |-> unit,
                 prefix |-> prefix,
                 fullUnit |-> prefix \o unit,
                 info |-> info,
                 barGraph |-> bar,
                 barGraphIsShown |-> checkInfo(buf, 1, 0),
                 batteryWarning |-> checkInfo(buf, 2, 2),
                 autoRangeActive |-> checkInfo(buf, 1, 5),
                 holdActive |-> checkInfo(buf, 1, 1),
                 deltaActive |-> checkInfo(buf, 1, 2),
                 overflow |-> isOverflow(buf),
                 formatedValue |-> vWithUnit,
                 formatedSiValue |-> vSiWithUnit],
              multToSi |-> mult,
              vSi |-> vSi,
              overrun |-> Len(vWithUnit) > WorkBufLen - 1
                          \/ Len(vSiWithUnit) > WorkBufLen - 1]

\* ------------------------------------------------------------------------
\* The input: what select() and read() report on the device, in order
\* ------------------------------------------------------------------------

\* A 14-byte frame
MkFrame(sign, d1, d2, d3, d4, b5, b6, sb1, sb2, sb3, sb4, bar, cr, lf) ==
    <<sign, d1, d2, d3, d4, b5, b6, sb1, sb2, sb3, sb4, bar, cr, lf>>

\* "+1234 3", DC and AUTO, V: displayed as "123.4 V"
GoodFrame == MkFrame(43, 49, 50, 51, 52, 32, 51, 48, 0, 0, 128, 75, 13, 10)

\* The same with byte 5 = 0x21: fails the framing gate
BadFrame == MkFrame(43, 49, 50, 51, 52, 33, 51, 48, 0, 0, 128, 75, 13, 10)

\* "-1234 1" with every prefix bit and every unit bit set
CrowdedFrame == MkFrame(45, 49, 50, 51, 52, 32, 49, 0, 2, 242, 255, 0, 13, 10)

\* What the device reports next is one event: a byte 0..255 (select() says
\* readable and read() stores that byte), or one of
\*   Gap        select() returns 0 after 100 ms without data
\*   ReadErr    select() says readable and read() returns -1
\*   SelectErr  select() returns -1
Gap == 256

ReadErr == 257

SelectErr == 258

IsByte(e) == e \in Byte

GoodEvents == GoodFrame

BadEvents == BadFrame

CrowdedEvents == CrowdedFrame

\* The first six bytes of a frame
PartialEvents == SubSeq(GoodFrame, 1, 6)

\* The kinds of segment a stream is made of
SegKinds == {"good", "bad", "crowded", "partial", "gap", "rderr", "selerr"}

SegEvents(k) ==
    CASE k = "good" -> GoodEvents
      [] k = "bad" -> BadEvents
      [] k = "crowded" -> CrowdedEvents
      [] k = "partial" -> PartialEvents
      [] k = "gap" -> <<Gap>>
      [] k = "rderr" -> <<ReadErr>>
      [] k = "selerr" -> <<SelectErr>>

\* The events of the segments ss, in order
RECURSIVE Stream(_)
Stream(ss) ==
    IF ss = <<>> THEN <<>> ELSE SegEvents(ss[1]) \o Stream(Tail(ss))

\* The sequences of up to n segments; nothing follows a failed select(),
\* which ends the program
RECURSIVE SegSeqs(_)
SegSeqs(n) ==
    IF n = 0 THEN {<<>>}
    ELSE SegSeqs(n - 1) \cup
         { Append(ss, k) : ss \in { t \in SegSeqs(n - 1) :
                                      t = <<>> \/ t[Len(t)] # "selerr" },
                           k \in SegKinds }

\* The streams of the model
Streams == { Stream(ss) : ss \in SegSeqs(MaxSegs) }

\* -c count: a limit, or the default LONG_MAX
Counts == {1, LONG_MAX}

\* ------------------------------------------------------------------------
\* State
\* ------------------------------------------------------------------------

VARIABLES
    stream,      \* the input: what select() and read() will report, in order
    pos,         \* how many events of the stream have been consumed
    pc,          \* where main is
    count,       \* main: long count
    loop,        \* main: long loop
    ret,         \* main: int ret
    bufIdx,      \* read14BytesPaket: int bufIdx
    readBuffer,  \* main: byte readBuffer[], its first 14 bytes (see At)
    bufPos,      \* for each byte of readBuffer, the stream position it came from
    vc830Data,   \* main: struct Vc830 vc830Data
    dec,         \* the locals multToSi and vSi of the last decodeFS9922Paket
    now,         \* what gettimeofday() returns next
    frames,      \* the frames read14BytesPaket has returned, as stream positions
    reads,       \* how many read() calls were made
    shown,       \* the records showData() has printed, by their receivedAt
    diags        \* how many parse diagnostics main has written to stderr

vars == <<stream, pos, pc, count, loop, ret, bufIdx, readBuffer, bufPos,
          vc830Data, dec, now, frames, reads, shown, diags>>

input == <<stream, count>>

NoDec == [multToSi |-> 0, vSi |-> [neg |-> FALSE, digs |-> <<>>, exp10 |-> 0],
          overrun |-> FALSE]

\* main up to the sampling loop: the device is open, nothing has been read
Init ==
    /\ stream \in Streams
    /\ count \in Counts
    /\ pos = 0
    /\ pc = "loop"
    /\ loop = 0
    /\ ret = 0
    /\ bufIdx = 0
    /\ readBuffer = [i \in 1..FrameLen |-> 0]
    /\ bufPos = [i \in 1..FrameLen |-> 0]
    /\ vc830Data = ZeroData  \* not initialised by main; never read before
                             \* decodeFS9922Paket has written it
    /\ dec = NoDec
    /\ now = 1
    /\ frames = <<>>
    /\ reads = 0
    /\ shown = <<>>
    /\ diags = 0

\* The event select()/read() meet next; past the end of a capture file
\* select() says readable and read() returns 0
AtEnd == pos >= Len(stream)

NextEvent == stream[pos + 1]

\* ------------------------------------------------------------------------
\* main: the sampling loop
\* ------------------------------------------------------------------------

\* while (loop < count) { loop++; ret = read14BytesPaket(fd, readBuffer);
\* read14BytesPaket starts with bufIdx = 0
LoopEnter ==
    /\ pc = "loop"
    /\ loop < count
    /\ loop' = loop + 1
    /\ bufIdx' = 0
    /\ pc' = "read14"
    /\ UNCHANGED <<input, pos, ret, readBuffer, bufPos, vc830Data, dec, now,
                   frames, reads, shown, diags>>

\* loop == count: close(fd); exit(0)
LoopEnd ==
    /\ pc = "loop"
    /\ ~(loop < count)
    /\ pc' = "exit0"
    /\ UNCHANGED <<input, pos, loop, ret, bufIdx, readBuffer, bufPos,
                   vc830Data, dec, now, frames, reads, shown, diags>>

\* ------------------------------------------------------------------------
\* read14BytesPaket: one pass of its while (1) loop per action
\* ------------------------------------------------------------------------

\* select() returns -1: perror, return -1
SelectFails ==
    /\ pc = "read14"
    /\ ~AtEnd
    /\ NextEvent = SelectErr
    /\ pos' = pos + 1
    /\ ret' = -1
    /\ pc' = "afterRead"
    /\ UNCHANGED <<input, count, loop, bufIdx, readBuffer, bufPos, vc830Data,
                   dec, now, frames, reads, shown, diags>>

\* A timeout that leaves the accumulated bytes in place
bufIdxKeptOnTimeout(idx) == idx

\* What a timeout leaves in bufIdx
bufIdxAfterTimeout(idx) == 0

\* bufIdx += l without looking at the sign of l
bufIdxAfterReadUnchecked(idx, l) == idx + l

\* if (l > 0) bufIdx += l;
bufIdxAfterRead(idx, l) == IF l > 0 THEN idx + l ELSE idx

\* select() returns 0: bufIdx = 0; continue
SelectTimeout ==
    /\ pc = "read14"
    /\ ~AtEnd
    /\ NextEvent = Gap
    /\ pos' = pos + 1
    /\ bufIdx' = bufIdxAfterTimeout(bufIdx)
    /\ UNCHANGED <<input, pc, loop, ret, readBuffer, bufPos, vc830Data, dec,
                   now, frames, reads, shown, diags>>

\* read() stores one byte at readBuffer[bufIdx]: bufIdx += 1, and with the
\* 14th byte return 0
ReadByte ==
    /\ pc = "read14"
    /\ ~AtEnd
    /\ IsByte(NextEvent)
    /\ pos' = pos + 1
    /\ reads' = reads + 1
    /\ readBuffer' = [readBuffer EXCEPT ![bufIdx + 1] = NextEvent]
    /\ bufPos' = [bufPos EXCEPT ![bufIdx + 1] = pos + 1]
    /\ bufIdx' = bufIdxAfterRead(bufIdx, 1)
    /\ IF bufIdx' = FrameLen
       THEN /\ ret' = 0
            /\ pc' = "afterRead"
            /\ frames' = Append(frames, bufPos')
       ELSE UNCHANGED <<ret, pc, frames>>
    /\ UNCHANGED <<input, loop, vc830Data, dec, now, shown, diags>>

\* read() returns 0: return END_OF_CAPTURE_FILE
ReadEof ==
    /\ pc = "read14"
    /\ AtEnd
    /\ reads' = reads + 1
    /\ ret' = END_OF_CAPTURE_FILE
    /\ pc' = "afterRead"
    /\ UNCHANGED <<input, pos, loop, bufIdx, readBuffer, bufPos, vc830Data,
                   dec, now, frames, shown, diags>>

\* read() returns -1: l is neither 0 nor > 0, bufIdx stays below 14 and the
\* loop goes round again
ReadFails ==
    /\ pc = "read14"
    /\ ~AtEnd
    /\ NextEvent = ReadErr
    /\ pos' = pos + 1
    /\ reads' = reads + 1
    /\ bufIdx' = bufIdxAfterRead(bufIdx, -1)
    /\ IF bufIdx' = FrameLen
       THEN /\ ret' = 0
            /\ pc' = "afterRead"
            /\ frames' = Append(frames, bufPos)
       ELSE UNCHANGED <<ret, pc, frames>>
    /\ UNCHANGED <<input, loop, readBuffer, bufPos, vc830Data, dec, now,
                   shown, diags>>

\* ------------------------------------------------------------------------
\* main: after read14BytesPaket
\* ------------------------------------------------------------------------

\* The end of the capture file taken for a failed read
MainEndOfCaptureAsError ==
    /\ pc = "afterRead"
    /\ ret = END_OF_CAPTURE_FILE
    /\ pc' = "exitError"
    /\ UNCHANGED <<input, pos, loop, ret, bufIdx, readBuffer, bufPos,
                   vc830Data, dec, now, frames, reads, shown, diags>>

\* if (ret == END_OF_CAPTURE_FILE) break;  then close(fd); exit(0)
MainEndOfCapture ==
    /\ pc = "afterRead"
    /\ ret = END_OF_CAPTURE_FILE
    /\ pc' = "exit0"
    /\ UNCHANGED <<input, pos, loop, ret, bufIdx, readBuffer, bufPos,
                   vc830Data, dec, now, frames, reads, shown, diags>>

\* if (ret != 0) exitWithError("Read failed");
MainReadFailed ==
    /\ pc = "afterRead"
    /\ ret # END_OF_CAPTURE_FILE
    /\ ret # 0
    /\ pc' = "exitError"
    /\ UNCHANGED <<input, pos, loop, ret, bufIdx, readBuffer, bufPos,
                   vc830Data, dec, now, frames, reads, shown, diags>>

\* ret == 0: go on to decodeFS9922Paket(readBuffer, &vc830Data)
MainGotFrame ==
    /\ pc = "afterRead"
    /\ ret = 0
    /\ pc' = "decode"
    /\ UNCHANGED <<input, pos, loop, ret, bufIdx, readBuffer, bufPos,
                   vc830Data, dec, now, frames, reads, shown, diags>>

\* ret = decodeFS9922Paket(readBuffer, &vc830Data) runs to its return
DecodeReturns ==
    /\ pc = "decode"
    /\ LET r == decodeFS9922Paket(readBuffer, now)
       IN  /\ ret' = r.ret
           /\ vc830Data' = r.data
           /\ dec' = [multToSi |-> r.multToSi, vSi |-> r.vSi,
                      overrun |-> r.overrun]
    /\ now' = now + 1
    /\ pc' = "afterDecode"
    /\ UNCHANGED <<input, pos, loop, bufIdx, readBuffer, bufPos, frames,
                   reads, shown, diags>>

\* A strcat past the end of vWithUnit[20] or vSiWithUnit[20] is undefined.
\* Three outcomes are modelled.  The bytes past the end land where nothing
\* else lives, and the call returns what the code spells out
\* (DecodeReturns).  They land in another object of the function, and the
\* record comes back with other contents (DecodeClobbers).  Or the
\* overrun is detected, by a fortified strcat or a stack protector, and the
\* process is killed (DecodeAborts).

\* What vWithUnit may hold once its tail has been overwritten
ClobberedStrings(r) ==
    { r.data.formatedSiValue,
      Take(r.data.formatedValue, WorkBufLen) \o r.data.formatedSiValue }

\* The C string that starts off bytes into s: what an object that lies off
\* bytes after the start of a buffer holds once s was written to the buffer
BytesFrom(s, off) == SubSeq(s, off + 1, Len(s))

\* What *vc830Data may hold once a strcat has written past the end of
\* vWithUnit or vSiWithUnit: the record of the code with
\*   formatedValue overwritten (ClobberedStrings), or
\*   info overwritten by vWithUnit, where info[] lies 32 bytes after
\*     vWithUnit[] and receives its bytes from the 32nd on, or
\*   mode overwritten by vSiWithUnit, where vWithUnit[], vSiWithUnit[] and
\*     mode[] lie one after the other.
ClobberedRecords(r) ==
    LET v == r.data.formatedValue
        vSi == r.data.formatedSiValue
    IN  { [r.data EXCEPT !.formatedValue = g] : g \in ClobberedStrings(r) }
        \cup (IF Len(v) >= 32
              THEN { [r.data EXCEPT !.info = BytesFrom(v, 32)] }
              ELSE {})
        \cup (IF Len(vSi) >= WorkBufLen
              THEN { [r.data EXCEPT
                        !.mode = BytesFrom(vSi, WorkBufLen),
                        !.formatedValue =
                            IF Len(v) >= WorkBufLen
                            THEN Take(v, WorkBufLen) \o vSi ELSE v] }
              ELSE {})

DecodeClobbers ==
    /\ pc = "decode"
    /\ LET r == decodeFS9922Paket(readBuffer, now)
       IN  /\ r.overrun
           /\ ret' = r.ret
           /\ vc830Data' \in ClobberedRecords(r)
           /\ dec' = [multToSi |-> r.multToSi, vSi |-> r.vSi,
                      overrun |-> r.overrun]
    /\ now' = now + 1
    /\ pc' = "afterDecode"
    /\ UNCHANGED <<input, pos, loop, bufIdx, readBuffer, bufPos, frames,
                   reads, shown, diags>>

DecodeAborts ==
    /\ pc = "decode"
    /\ decodeFS9922Paket(readBuffer, now).overrun
    /\ pc' = "aborted"
    /\ dec' = [dec EXCEPT !.overrun = TRUE]
    /\ UNCHANGED <<input, pos, loop, ret, bufIdx, readBuffer, bufPos,
                   vc830Data, now, frames, reads, shown, diags>>

\* A failed decode whose record is shown all the same
MainParseFailedShows ==
    /\ pc = "afterDecode"
    /\ ret # 0
    /\ shown' = Append(shown, vc830Data.receivedAt)
    /\ pc' = "loop"
    /\ UNCHANGED <<input, pos, loop, ret, bufIdx, readBuffer, bufPos,
                   vc830Data, dec, now, frames, reads, diags>>

\* if (ret != 0) { fprintf(stderr, ...); continue; }
MainParseFailed ==
    /\ pc = "afterDecode"
    /\ ret # 0
    /\ diags' = diags + 1
    /\ pc' = "loop"
    /\ UNCHANGED <<input, pos, loop, ret, bufIdx, readBuffer, bufPos,
                   vc830Data, dec, now, frames, reads, shown>>

\* showData(&vc830Data, outputFormat, timeFormat)
MainShowData ==
    /\ pc = "afterDecode"
    /\ ret = 0
    /\ shown' = Append(shown, vc830Data.receivedAt)
    /\ pc' = "loop"
    /\ UNCHANGED <<input, pos, loop, ret, bufIdx, readBuffer, bufPos,
                   vc830Data, dec, now, frames, reads, diags>>

Next ==
    \/ LoopEnter
    \/ LoopEnd
    \/ SelectFails
    \/ SelectTimeout
    \/ ReadByte
    \/ ReadEof
    \/ ReadFails
    \/ MainEndOfCapture
    \/ MainReadFailed
    \/ MainGotFrame
    \/ DecodeReturns
    \/ DecodeClobbers
    \/ DecodeAborts
    \/ MainParseFailed
    \/ MainShowData

Spec == Init /\ [][Next]_vars

\* ------------------------------------------------------------------------
\* The decoder on its own: main has just read a frame, of any contents
\* ------------------------------------------------------------------------

\* Bytes 1..4 around the digit range: '/', '0', '9', ':', '?'
GateBytes == {47, 48, 57, 58, 63}

\* Frames that differ in the bytes the three gates look at
GateFrames ==
    { MkFrame(sg, d1, d2, d3, d4, b5, 48, 0, 0, 0, 128, 0, cr, lf) :
        sg \in {43, 45, 42}, d1 \in GateBytes, d2 \in GateBytes,
        d3 \in GateBytes, d4 \in GateBytes, b5 \in {32, 33},
        cr \in {13, 10}, lf \in {10, 13} }

\* Frames that pass the gates and differ in digits, byte 6 and prefix
DigitFrames ==
    { MkFrame(sg, d1, d2, d3, d4, 32, b6, 0, sb2, sb3, sb4, 0, 13, 10) :
        sg \in {43, 45}, d1 \in {48, 49}, d2 \in {48, 50},
        d3 \in {48, 51, 57}, d4 \in {48, 52},
        b6 \in {0, 48, 49, 50, 51, 52, 53},
        sb2 \in {0, 2}, sb3 \in {0, 128, 64, 32, 16, 2, 96},
        sb4 \in {128, 32} }

\* Frames that pass the gates and differ in the status bytes and byte 11
StatusFrames ==
    { MkFrame(sg, d[1], d[2], d[3], d[4], 32, b6, sb1, sb2, sb3, sb4, bar, 13, 10) :
        sg \in {43, 45},
        d \in {<<49, 50, 51, 52>>, <<63, 48, 58, 63>>, <<48, 48, 48, 48>>},
        b6 \in {48, 51}, sb1 \in {0, 1, 48, 255}, sb2 \in {0, 2, 4, 255},
        sb3 \in {0, 32, 72, 255}, sb4 \in {0, 3, 16, 128, 255},
        bar \in {0, 75, 255} }

\* Frames "+1234 0" in which one status byte takes every value, next to
\* three that are all 0x00 or all 0xff
LabelFrames ==
    { MkFrame(43, 49, 50, 51, 52, 32, 48,
              IF i = 1 THEN b ELSE o, IF i = 2 THEN b ELSE o,
              IF i = 3 THEN b ELSE o, IF i = 4 THEN b ELSE o, 0, 13, 10) :
        i \in 1..4, b \in Byte, o \in {0, 255} }

\* main between read14BytesPaket returning 0 and the call of
\* decodeFS9922Paket, in its first pass of the loop.  The stream that
\* delivered the frame is left out: stream is empty and bufPos is blank.
InitDecode ==
    /\ stream = <<>>
    /\ count = LONG_MAX
    /\ pos = 0
    /\ pc = "decode"
    /\ loop = 1
    /\ ret = 0
    /\ bufIdx = FrameLen
    /\ \/ readBuffer \in GateFrames
       \/ readBuffer \in DigitFrames
       \/ readBuffer \in StatusFrames
       \/ readBuffer \in LabelFrames
    /\ bufPos = [i \in 1..FrameLen |-> 0]
    /\ vc830Data = ZeroData
    /\ dec = NoDec
    /\ now = 1
    /\ frames = <<bufPos>>
    /\ reads = FrameLen
    /\ shown = <<>>
    /\ diags = 0

NextDecode ==
    \/ DecodeReturns
    \/ DecodeClobbers
    \/ DecodeAborts
    \/ MainParseFailed
    \/ MainShowData

SpecDecode == InitDecode /\ [][NextDecode]_vars

\* ------------------------------------------------------------------------
\* Properties of the frame synchronizer and the sampling loop (Spec)
\* ------------------------------------------------------------------------

\* The frame made of the 14 stream positions from a on
FrameFrom(a) == [i \in 1..FrameLen |-> a + i - 1]

\* 20 bytes with no idle gap, a gap, 14 more bytes, then the end
TwentyGapFourteen ==
    /\ Len(stream) = 35
    /\ \A p \in 1..35 : IF p = 21 THEN stream[p] = Gap ELSE IsByte(stream[p])

\* main has read the stream to its end
ReadToEnd == pc = "exit0" /\ ret = END_OF_CAPTURE_FILE

IsPrefix(s, t) == Len(s) <= Len(t) /\ \A i \in 1..Len(s) : s[i] = t[i]

\* C1 as stated: on a stream of 20 bytes, an idle gap and 14 more bytes the
\* sampling loop obtains one frame only, the last 14 bytes (stream positions
\* 22..35), and no frame holds any of the first 20 bytes.
C1_OneFrameOnly ==
    TwentyGapFourteen =>
        /\ IsPrefix(frames, <<FrameFrom(22)>>)
        /\ ReadToEnd => frames = <<FrameFrom(22)>>

\* C1 amended: on that stream the first frame returned is the first 14 of
\* the 20 bytes, the next is the last 14 bytes, and there is no other; a loop
\* that reads to the end of the stream obtains exactly these two.  Bytes
\* 15..20 are in no frame.
C1_TwoFrames ==
    TwentyGapFourteen =>
        /\ IsPrefix(frames, <<FrameFrom(1), FrameFrom(22)>>)
        /\ ReadToEnd => frames = <<FrameFrom(1), FrameFrom(22)>>

\* C1 witness: the stream was read to its end and both frames were returned
C1_Witness == TwentyGapFourteen /\ ReadToEnd /\ Len(frames) = 2

\* The latest byte event at a stream position <= p, or 0
RECURSIVE PrevBytePos(_)
PrevBytePos(p) ==
    IF p = 0 THEN 0
    ELSE IF IsByte(stream[p]) THEN p
    ELSE PrevBytePos(p - 1)

\* The positions of the n latest byte events at positions <= p, in arrival
\* order (shorter when there are fewer)
RECURSIVE RecentBytes(_, _)
RecentBytes(n, p) ==
    IF n = 0 \/ PrevBytePos(p) = 0 THEN <<>>
    ELSE Append(RecentBytes(n - 1, PrevBytePos(p) - 1), PrevBytePos(p))

NoGapIn(a, b) == \A p \in a..b : stream[p] # Gap

\* read14BytesPaket is waiting, or has just returned a frame
Accumulating == pc = "read14" \/ (pc = "afterRead" /\ ret = 0)

\* C2: an idle timeout never makes read14BytesPaket return, it sets bufIdx
\* to 0 and the wait goes on (the call is still waiting after a timeout,
\* unless the stream ended there); bufIdx is in 0..13 while waiting; the bytes
\* accumulated, and so every frame returned, are the latest bytes received,
\* in arrival order, with no timeout since the first of them.
C2_TimeoutResyncs ==
    /\ (pos > 0 /\ stream[pos] = Gap)
          => /\ bufIdx = 0
             /\ pc = "read14" \/ (AtEnd /\ ret = END_OF_CAPTURE_FILE)
    /\ pc = "read14" => bufIdx \in 0..(FrameLen - 1)
    /\ Accumulating =>
          LET R == RecentBytes(bufIdx, pos)
          IN  /\ Len(R) = bufIdx
              /\ \A j \in 1..bufIdx :
                    /\ bufPos[j] = R[j]
                    /\ readBuffer[j] = stream[R[j]]
              /\ bufIdx > 0 => NoGapIn(R[1], pos)
    /\ (pc = "afterRead" /\ ret = 0) =>
          /\ bufIdx = FrameLen
          /\ frames[Len(frames)] = bufPos
          /\ bufPos[FrameLen] = pos

\* C2 witness: a frame is returned after a timeout threw six bytes away
C2_Witness ==
    /\ pc = "afterRead" /\ ret = 0
    /\ IsByte(stream[6]) /\ stream[7] = Gap
    /\ frames = <<FrameFrom(8)>>

\* C3 as stated: once select() or read() has reported an error,
\* read14BytesPaket has returned -1 without another read and main goes on
\* to exit with an error.
C3_FailureIsFatal ==
    (pos > 0 /\ stream[pos] \in {SelectErr, ReadErr})
        => (pc \in {"afterRead", "exitError"} /\ ret = -1)

\* C4: when read() returns 0, read14BytesPaket returns END_OF_CAPTURE_FILE,
\* which is neither 0 (a frame) nor -1, whatever bufIdx is; main then
\* leaves the loop and exits with status 0, with no diagnostic, no record
\* shown and no further read.
C4_EndOfStream ==
    [][ /\ (pc = "read14" /\ AtEnd) =>
             (pc' = "afterRead" /\ ret' = END_OF_CAPTURE_FILE
                /\ ret' \notin {0, -1} /\ reads' = reads + 1)
        /\ ret = END_OF_CAPTURE_FILE =>
             (pc' = "exit0" /\ reads' = reads /\ shown' = shown
                /\ diags' = diags /\ pos' = pos /\ ret' = ret) ]_vars

\* C4 witness: main has exited with status 0 at the end of a stream that
\* stopped six bytes into a frame
C4_Witness == ReadToEnd /\ bufIdx = 6 /\ shown = <<>> /\ diags = 0

\* C5 as stated: a call of decodeFS9922Paket that returns an error leaves
\* the caller's vc830Data as it was.
C5_NothingWrittenOnError ==
    [][ (pc = "decode" /\ pc' = "afterDecode" /\ ret' # 0)
            => vc830Data' = vc830Data ]_vars

\* The bytes of the k-th frame read14BytesPaket returned
FrameBytes(k) == [j \in 1..FrameLen |-> stream[frames[k][j]]]

\* The k-th frame fails a gate of decodeFS9922Paket
FrameFails(k) == decodeFS9922Paket(FrameBytes(k), 0).ret # 0

\* The calls of decodeFS9922Paket that have returned: each takes one
\* timestamp
Decodes == now - 1

\* A frame has been read and its decode has not returned
FramePending ==
    (pc = "afterRead" /\ ret = 0) \/ pc = "decode" \/ pc = "aborted"

\* main is past the diagnostic of a failed decode and has not read the next
\* frame: ret still holds what decodeFS9922Paket returned
AfterFailedDecode ==
    pc \in {"loop", "read14"} /\ Decodes > 0 /\ ret \in {-1, -2, -3}

\* The 14 events that follow stream position p are bytes
FourteenBytesAfter(p) ==
    /\ p + FrameLen <= Len(stream)
    /\ \A q \in (p + 1)..(p + FrameLen) : IsByte(stream[q])

\* What holds in every state: reading and decoding take turns, and after a
\* failed decode reading goes on with the byte after the failed frame
C12_Alternate ==
    /\ Len(frames) = Decodes + (IF FramePending THEN 1 ELSE 0)
    /\ diags + Len(shown) = Decodes - (IF pc = "afterDecode" THEN 1 ELSE 0)
    /\ pc = "decode" =>
          /\ Len(frames) > 0
          /\ readBuffer = FrameBytes(Len(frames))
    /\ pc = "afterDecode" => (ret # 0 <=> FrameFails(Len(frames)))
    /\ AfterFailedDecode =>
          LET last == frames[Len(frames)][FrameLen]
          IN  /\ diags > 0
              /\ pc = "loop" => pos = last
              /\ (pc = "read14" /\ FourteenBytesAfter(last)) =>
                    /\ pos = last + bufIdx
                    /\ \A j \in 1..bufIdx : bufPos[j] = last + j
    /\ (pc = "afterRead" /\ ret = 0 /\ Len(frames) > 1) =>
          LET last == frames[Len(frames) - 1][FrameLen]
          IN  /\ frames[Len(frames)][1] > last
              /\ (FrameFails(Len(frames) - 1) /\ FourteenBytesAfter(last))
                    => frames[Len(frames)] = FrameFrom(last + 1)

\* What holds of every step: a failed decode is followed by the diagnostic
\* alone, then by the head of the loop; decodeFS9922Paket is called on a
\* frame read14BytesPaket has just returned, and on nothing else
C12_Discard ==
    /\ (pc = "afterDecode" /\ ret # 0) =>
          /\ diags' = diags + 1
          /\ shown' = shown
          /\ pc' = "loop"
          /\ now' = now /\ pos' = pos /\ frames' = frames
    /\ (pc = "loop" /\ loop < count) =>
          (pc' = "read14" /\ bufIdx' = 0 /\ pos' = pos /\ now' = now)
    /\ (pc = "loop" /\ ~(loop < count)) => pc' = "exit0"
    /\ now' # now => (pc = "decode" /\ pc' = "afterDecode")
    /\ pc' = "decode" => (pc = "afterRead" /\ ret = 0 /\ frames' = frames)
    /\ frames' # frames =>
          (pc = "read14" /\ pc' = "afterRead" /\ Len(frames') = Len(frames) + 1)

\* C12: a frame whose decode fails gets one diagnostic and no record, and is
\* not decoded again; main then goes back to the head of the loop and, if
\* loop < count, calls read14BytesPaket, which starts with the event right
\* after the 14th byte of the failed frame, so that when 14 bytes follow they
\* are the next frame.  Frames are read and decoded in turn: every frame
\* returned is decoded once, before the next is read, and every decode ends
\* in one diagnostic or one record.
C12_FailedFrameDiscarded == []C12_Alternate /\ [][C12_Discard]_vars

\* C12 witness: the first frame failed a gate and got a diagnostic, the 14
\* bytes after it were the second frame, and that one was decoded and shown
C12_Witness ==
    /\ pc = "loop"
    /\ Len(frames) = 2
    /\ FrameFails(1) /\ ~FrameFails(2)
    /\ frames[2] = FrameFrom(15)
    /\ diags = 1 /\ Len(shown) = 1

\* ------------------------------------------------------------------------
\* Properties of the decoder (SpecDecode)
\* ------------------------------------------------------------------------

\* The gates as the specification orders them: -1 FrameFormat, -2
\* InvalidSign, -3 InvalidDigit, 0 success
ClaimedSentinel(buf) ==
    <<At(buf, 1), At(buf, 2), At(buf, 3), At(buf, 4)>> = <<63, 48, 58, 63>>

ClaimedClass(buf) ==
    IF At(buf, 5) # 32 \/ At(buf, 12) # 13 \/ At(buf, 13) # 10 THEN -1
    ELSE IF At(buf, 0) \notin {43, 45} THEN -2
    ELSE IF ~ClaimedSentinel(buf)
            /\ \E i \in 1..4 : At(buf, i) \notin 48..57 THEN -3
    ELSE 0

\* C6 as stated: decodeFS9922Paket returns for every frame, with the result
\* of the first gate the frame fails, and 0 when it fails none; no value of
\* byte 6, of the status bytes or of byte 11 keeps it from succeeding.
C6_GatesClassify ==
    /\ pc # "aborted"
    /\ pc = "afterDecode" => ret = ClaimedClass(readBuffer)

\* The multiplier of the specification's table, as a power of ten
ClaimedMult(prefix) ==
    CASE prefix = L_n -> -9
      [] prefix = L_micro -> -6
      [] prefix = L_m -> -3
      [] prefix = L_k -> 3
      [] OTHER -> 0

\* C7 as stated: the multiplier is the table's (n 1e-9, µ 1e-6, m 1e-3,
\* k 1e3, else 1), and "1.234" with the prefix k alone has the SI value
\* 1234.  Stated for the frames whose strings fit their buffers.
C7_MultiplierTable ==
    (pc = "afterDecode" /\ ret = 0 /\ ~dec.overrun) =>
        /\ dec.multToSi = ClaimedMult(vc830Data.prefix)
        /\ (vc830Data.rawRisplay = <<49, 46, 50, 51, 52>>
              /\ vc830Data.prefix = L_k)
            => (dec.vSi.digs = <<49, 50, 51, 52>> /\ dec.vSi.exp10 = 0)

\* Leading zeros stripped, one digit kept, and the digit before a point kept
RECURSIVE ClaimedStrip(_)
ClaimedStrip(d) ==
    IF Len(d) > 1 /\ d[1] = 48 /\ d[2] # 46 THEN ClaimedStrip(Tail(d)) ELSE d

\* C8 as stated: for a frame that is decoded and is no overflow frame,
\* displayText is '-' if negative, the digits without leading zeros but with
\* at least one digit, a space, the prefix and the unit.  Stated for the
\* frames whose strings fit their buffers.
C8_DisplayText ==
    (pc = "afterDecode" /\ ret = 0 /\ ~vc830Data.overflow /\ ~dec.overrun) =>
        vc830Data.formatedValue =
            (IF vc830Data.sign = 45 THEN <<45>> ELSE <<>>)
                \o ClaimedStrip(vc830Data.rawRisplay) \o <<32>>
                \o vc830Data.prefix \o vc830Data.unit

\* The four digit bytes with the point where byte 6 puts it
ClaimedDigits(buf) ==
    LET d(i) == <<At(buf, i)>>
    IN  CASE At(buf, 6) = 49 -> d(1) \o <<46>> \o d(2) \o d(3) \o d(4)
          [] At(buf, 6) = 50 -> d(1) \o d(2) \o <<46>> \o d(3) \o d(4)
          [] At(buf, 6) \in {51, 52} -> d(1) \o d(2) \o d(3) \o <<46>> \o d(4)
          [] OTHER -> d(1) \o d(2) \o d(3) \o d(4)

\* C9 as stated: every frame that passes the three gates and is no overflow
\* frame is decoded with success, and digits are its four digit bytes with
\* the point after digit 1, 2 or 3 for byte 6 = 0x31, 0x32, 0x33/0x34, and
\* no point otherwise.
C9_DigitsAndPoint ==
    (ClaimedClass(readBuffer) = 0 /\ ~ClaimedSentinel(readBuffer)) =>
        /\ pc # "aborted"
        /\ pc = "afterDecode" =>
              (ret = 0 /\ vc830Data.rawRisplay = ClaimedDigits(readBuffer))

\* C10 as stated: every frame that passes the framing and sign gates and
\* holds '?','0',':','?' is decoded with success, overflow set and digits
\* "OVF", whatever byte 6, the status bytes and byte 11 are; overflow is
\* not set for any other decoded frame.
C10_OverflowSentinel ==
    /\ (ClaimedClass(readBuffer) = 0 /\ ClaimedSentinel(readBuffer)) =>
          /\ pc # "aborted"
          /\ pc = "afterDecode" =>
                (ret = 0 /\ vc830Data.overflow /\ vc830Data.rawRisplay = S_OVF)
    /\ (pc = "afterDecode" /\ ret = 0 /\ ~ClaimedSentinel(readBuffer)) =>
          ~vc830Data.overflow

\* The mapping of the specification: the label of each bit of each status
\* byte, from bit 0 to bit 7, and the field it goes to.  <<>> is no label.
ClaimedLabels ==
    << << <<>>, L_HOLD, L_REL, L_AC, L_DC, L_AUTO, <<>>, <<>> >>,
       << L_Z3, L_n, L_Bat, L_APO, L_MIN, L_MAX, L_Z2, L_Diode >>,
       << L_Z4, L_pct, L_Diode, L_Beep, L_M, L_k, L_m, L_micro >>,
       << L_degF, L_degC, L_F, L_Hz, L_hFE, L_Ohm, L_A, L_V >> >>

ClaimedFields ==
    << << "", "mode", "mode", "mode", "mode", "info", "", "" >>,
       << "info", "prefix", "info", "info", "info", "info", "info", "info" >>,
       << "info", "prefix", "info", "info", "prefix", "prefix", "prefix",
          "prefix" >>,
       << "unit", "unit", "unit", "unit", "unit", "unit", "unit", "unit" >> >>

\* The text of a field: the labels of its set bits, separated by one space,
\* status byte 1 first and within a byte the highest bit first.  n counts
\* the 32 bits in that order.
RECURSIVE ClaimedText(_, _, _)
ClaimedText(buf, field, n) ==
    IF n = 0 THEN <<>>
    ELSE LET sb == ((n - 1) \div 8) + 1
             bit == 7 - ((n - 1) % 8)
             before == ClaimedText(buf, field, n - 1)
         IN  IF ClaimedFields[sb][bit + 1] = field
                /\ (At(buf, 6 + sb) \div (2 ^ bit)) % 2 = 1
             THEN (IF before = <<>> THEN <<>> ELSE before \o <<32>>)
                      \o ClaimedLabels[sb][bit + 1]
             ELSE before

ClaimedFlag(buf, sb, bit) == (At(buf, 6 + sb) \div (2 ^ bit)) % 2 = 1

\* C11 as stated: in every record decodeFS9922Paket returns, mode, prefix,
\* unit and info each hold the labels of their set status bits and nothing
\* else, space-separated, SB1 before SB2 before SB3 before SB4 and the
\* highest bit first within a byte (SB1 bits 7, 6 and 0 give no label), and
\* autoRangeActive, deltaActive, holdActive, barGraphIsShown and
\* batteryWarning are SB1 bits 5, 2, 1, 0 and SB2 bit 2, for every value of
\* the four status bytes.
C11_StatusLabels ==
    (pc = "afterDecode" /\ ret = 0) =>
        /\ vc830Data.mode = ClaimedText(readBuffer, "mode", 32)
        /\ vc830Data.prefix = ClaimedText(readBuffer, "prefix", 32)
        /\ vc830Data.unit = ClaimedText(readBuffer, "unit", 32)
        /\ vc830Data.info = ClaimedText(readBuffer, "info", 32)
        /\ vc830Data.autoRangeActive = ClaimedFlag(readBuffer, 1, 5)
        /\ vc830Data.deltaActive = ClaimedFlag(readBuffer, 1, 2)
        /\ vc830Data.holdActive = ClaimedFlag(readBuffer, 1, 1)
        /\ vc830Data.barGraphIsShown = ClaimedFlag(readBuffer, 1, 0)
        /\ vc830Data.batteryWarning = ClaimedFlag(readBuffer, 2, 2)

\* C13 as stated: for every frame that passes the three gates, whatever
\* prefix and unit bits are set, the display text and the SI text as the
\* strcat calls build them are at most 19 bytes long, so that each fits its
\* 20-byte buffer with its terminator and decodeFS9922Paket writes outside
\* no buffer.
C13_StringsFit ==
    /\ pc # "aborted"
    /\ (pc = "afterDecode" /\ ret = 0) =>
          LET r == decodeFS9922Paket(readBuffer, 0)
          IN  /\ Len(r.data.formatedValue) <= WorkBufLen - 1
              /\ Len(r.data.formatedSiValue) <= WorkBufLen - 1
              /\ ~dec.overrun

====
